---- MODULE Spec2Model ----
(***************************************************************************)
(* Model of ios/update_info_plist.py: the read-modify-write routine that   *)
(* removes the key UIApplicationSceneManifest from Silento/Info.plist,     *)
(* together with the parts of plistlib and of the file system that its     *)
(* behaviour depends on (load of binary/XML property lists, dump as XML    *)
(* with sorted keys, truncating open for writing, buffered writes).        *)
(***************************************************************************)
EXTENDS Integers, Sequences, FiniteSets, TLC

(* ------------------------------ bounds --------------------------------- *)
\* largest number of top-level entries of an initial document
MaxEntries == 2
\* largest number of invocations of the script by one process (sequential runs)
MaxRuns == 2
\* number of tokens one write system call transfers when the buffer is flushed
ChunkLen == 3

(* ----------------------------- processes ------------------------------- *)
Procs == {1, 2}

(* ------------------------------ the key -------------------------------- *)
\* the key the script removes (lines 24-25)
TargetKey == "UIApplicationSceneManifest"

\* the top-level keys of the modelled documents, in the order sorted() gives
KeyOrder == <<"CFBundleName", "UIApplicationSceneManifest", "UILaunchStoryboardName">>

Keys == {KeyOrder[i] : i \in 1..Len(KeyOrder)}

Rank(k) == CHOOSE i \in 1..Len(KeyOrder) : KeyOrder[i] = k

(* ------------------------------ values --------------------------------- *)
\* a string value
StrVal(s) == [t |-> "string", s |-> s]

\* a date; frac = TRUE when it carries a fraction of a second (binary only)
DateVal(frac) == [t |-> "date", frac |-> frac]

\* a plistlib.UID, which only the binary format can hold
UidVal == [t |-> "uid"]

\* a nested dictionary
DictVal(items) == [t |-> "dict", items |-> items]

Entry(k, v) == [k |-> k, v |-> v]

\* a nested dictionary that itself holds the target key
NestedWithKey == DictVal(<<Entry(TargetKey, StrVal("value"))>>)

\* the values an XML property list on disk can hold
XmlFileValues == {StrVal("value"), DateVal(FALSE), NestedWithKey}

\* the values a binary property list on disk can hold
BinaryFileValues == XmlFileValues \cup {DateVal(TRUE), UidVal}

(* ----------------------------- documents ------------------------------- *)
\* plist_data: what plistlib.load returns
DictDoc(items) == [root |-> "dict", items |-> items]
ArrayDoc(items) == [root |-> "array", items |-> items]
IntDoc == [root |-> "int", items |-> <<>>]
NoDoc == [root |-> "none", items |-> <<>>]

\* sequences of at most n entries with pairwise distinct keys over values vs
RECURSIVE EntrySeqs(_, _)
EntrySeqs(n, vs) ==
  IF n = 0 THEN {<<>>}
  ELSE LET shorter == EntrySeqs(n - 1, vs)
       IN shorter \cup
          {Append(s, Entry(k, v)) :
             s \in {q \in shorter : Len(q) = n - 1}, k \in Keys, v \in vs}

DistinctKeys(items) ==
  \A i, j \in 1..Len(items) : items[i].k = items[j].k => i = j

DictDocs(vs) == {DictDoc(s) : s \in {q \in EntrySeqs(MaxEntries, vs) : DistinctKeys(q)}}

\* property lists whose root is not a dictionary
OtherDocs == {ArrayDoc(<<StrVal(TargetKey)>>), ArrayDoc(<<StrVal("value")>>), IntDoc}

KeysOf(doc) == {doc.items[i].k : i \in 1..Len(doc.items)}

ValueAt(doc, k) == doc.items[CHOOSE i \in 1..Len(doc.items) : doc.items[i].k = k].v

(* ------------------------- bytes of the file --------------------------- *)
\* the file content is a sequence of tokens; a token stands for the bytes of
\* one syntactic unit of a property list
Hdr(fmt) == [tok |-> "hdr", fmt |-> fmt]
Open(root) == [tok |-> "open", root |-> root]
EntryTok(e) == [tok |-> "entry", k |-> e.k, v |-> e.v]
ItemTok(v) == [tok |-> "item", v |-> v]
KeyTok(k) == [tok |-> "key", k |-> k]
End == [tok |-> "end"]
Junk == [tok |-> "junk"]
Zero == [tok |-> "zero"]

\* the bytes of a well-formed property list holding doc, entries in the order
\* given and values as given (any producer, either format)
Encode(fmt, doc) ==
  <<Hdr(fmt), Open(doc.root)>>
  \o [i \in 1..Len(doc.items) |->
        IF doc.root = "dict" THEN EntryTok(doc.items[i]) ELSE ItemTok(doc.items[i])]
  \o <<End>>

\* plistlib.load accepts the bytes: header, root container, its members, end
Valid(bytes) ==
  /\ Len(bytes) >= 3
  /\ bytes[1].tok = "hdr"
  /\ bytes[2].tok = "open"
  /\ bytes[Len(bytes)].tok = "end"
  /\ \A i \in 3..(Len(bytes) - 1) :
       \/ bytes[2].root = "dict" /\ bytes[i].tok = "entry"
       \/ bytes[2].root = "array" /\ bytes[i].tok = "item"

\* plistlib.load: the object the bytes denote (values exactly as stored)
Parse(bytes) ==
  [root |-> bytes[2].root,
   items |-> [i \in 1..(Len(bytes) - 3) |->
                IF bytes[2].root = "dict"
                THEN Entry(bytes[i + 2].k, bytes[i + 2].v)
                ELSE bytes[i + 2].v]]

(* --------------------------- plistlib.dump ----------------------------- *)
\* sorted(d.items()): insertion of an entry into a sequence sorted by key
RECURSIVE InsertByKey(_, _)
InsertByKey(e, s) ==
  IF s = <<>> THEN <<e>>
  ELSE IF Rank(e.k) <= Rank(Head(s).k) THEN <<e>> \o s
  ELSE <<Head(s)>> \o InsertByKey(e, Tail(s))

RECURSIVE SortByKey(_)
SortByKey(items) ==
  IF items = <<>> THEN <<>>
  ELSE InsertByKey(Head(items), SortByKey(Tail(items)))

\* the XML writer can write the value (it raises TypeError on a UID)
RECURSIVE XmlWritable(_)
XmlWritable(v) ==
  CASE v.t = "uid" -> FALSE
    [] v.t = "dict" -> \A i \in 1..Len(v.items) : XmlWritable(v.items[i].v)
    [] OTHER -> TRUE

\* the value an XML reader gets back from what the XML writer wrote: dates
\* lose the fraction of a second, nested dictionaries are written sorted
RECURSIVE XmlValue(_)
XmlValue(v) ==
  CASE v.t = "date" -> DateVal(FALSE)
    [] v.t = "dict" ->
         LET sorted == SortByKey(v.items)
         IN DictVal([i \in 1..Len(sorted) |-> Entry(sorted[i].k, XmlValue(sorted[i].v))])
    [] OTHER -> v

\* the members of the root in the order the XML writer visits them
WriteOrder(doc) == IF doc.root = "dict" THEN SortByKey(doc.items) ELSE doc.items

MemberValue(doc, m) == IF doc.root = "dict" THEN m.v ELSE m

MemberTok(doc, m) ==
  IF doc.root = "dict" THEN EntryTok(Entry(m.k, XmlValue(m.v))) ELSE ItemTok(XmlValue(m))

\* plistlib.dump(plist_data, f): the bytes handed to the file object and the
\* exception raised, if any.  The writer emits as it goes, so on a value it
\* cannot write everything before that value (and its key) is already out.
DumpXml(doc) ==
  LET ms == WriteOrder(doc)
      bad == {i \in 1..Len(ms) : ~XmlWritable(MemberValue(doc, ms[i]))}
      toks == [i \in 1..Len(ms) |-> MemberTok(doc, ms[i])]
  IN IF bad = {}
     THEN [bytes |-> <<Hdr("xml"), Open(doc.root)>> \o toks \o <<End>>, exc |-> "none"]
     ELSE LET first == CHOOSE i \in bad : \A j \in bad : i <= j
          IN [bytes |-> <<Hdr("xml"), Open(doc.root)>>
                        \o SubSeq(toks, 1, first - 1)
                        \o (IF doc.root = "dict" THEN <<KeyTok(ms[first].k)>> ELSE <<>>),
              exc |-> "TypeError"]

(* ------------------------ the script's own step ------------------------ *)
\* del plist_data['UIApplicationSceneManifest'] (line 25): top level only
RemoveKey(doc, key) ==
  [doc EXCEPT !.items = SelectSeq(doc.items, LAMBDA e : e.k # key)]

\* 'UIApplicationSceneManifest' in plist_data (line 24) for a dict or a list
Contains(doc, key) ==
  IF doc.root = "dict" THEN key \in KeysOf(doc)
  ELSE \E i \in 1..Len(doc.items) : doc.items[i] = StrVal(key)

(* --------------------------- the file system --------------------------- *)
\* write(2) of chunk at offset off: the file grows as needed, a gap left by a
\* truncation under an open handle reads as zero bytes
WriteAt(bytes, off, chunk) ==
  LET n == IF Len(bytes) > off + Len(chunk) THEN Len(bytes) ELSE off + Len(chunk)
  IN [i \in 1..n |->
        IF i > off /\ i <= off + Len(chunk) THEN chunk[i - off]
        ELSE IF i <= Len(bytes) THEN bytes[i]
        ELSE Zero]

\* the file contents the script can find at the path before it first runs
InitialContents ==
  {Encode("binary", d) : d \in DictDocs(BinaryFileValues)}
  \cup {Encode("xml", d) : d \in DictDocs(XmlFileValues)}
  \cup {Encode("xml", d) : d \in OtherDocs}
  \cup {<<>>, <<Junk>>}

(* ------------------------------- state --------------------------------- *)
VARIABLES
  fexists,     \* a file exists at plist_path
  fbytes,      \* its content
  file0,       \* the file as it was before the first invocation
  storage,     \* "ok", "readonly" (open for writing is refused), "full" (writes fail)
  pc,          \* per process: the statement the invocation is at
  runs,        \* per process: invocations started so far
  before,      \* per process: the file as it was when the invocation started
  readOpen,    \* per process: the handle of line 20 is open
  writeOpen,   \* per process: the handle of line 31 is open
  writeOpens,  \* per process: times line 31 opened the path in this invocation
  offset,      \* per process: position of the write handle
  buffer,      \* per process: bytes given to the write handle, not yet written
  existed,     \* per process: what os.path.exists returned at line 14
  plist_data,  \* per process: the loaded document
  exc,         \* per process: the exception in flight, [type, line]
  out,         \* per process: the lines printed by update_info_plist
  success,     \* per process: the value update_info_plist returned
  exit_code    \* per process: the code given to sys.exit, -1 while running

vars == <<fexists, fbytes, file0, storage, pc, runs, before, readOpen, writeOpen,
          writeOpens, offset, buffer, existed, plist_data, exc, out, success, exit_code>>

NoExc == [type |-> "none", line |-> 0]
Raised(type, line) == [type |-> type, line |-> line]

FileNow == [exists |-> fexists, bytes |-> fbytes]

Init ==
  /\ \E c \in InitialContents, e \in BOOLEAN :
       /\ fexists = e
       /\ fbytes = (IF e THEN c ELSE <<>>)
       /\ (~e => c = <<>>)
       /\ file0 = [exists |-> e, bytes |-> (IF e THEN c ELSE <<>>)]
  /\ storage \in {"ok", "readonly", "full"}
  /\ pc = [p \in Procs |-> "idle"]
  /\ runs = [p \in Procs |-> 0]
  /\ before = [p \in Procs |-> [exists |-> FALSE, bytes |-> <<>>]]
  /\ readOpen = [p \in Procs |-> FALSE]
  /\ writeOpen = [p \in Procs |-> FALSE]
  /\ writeOpens = [p \in Procs |-> 0]
  /\ offset = [p \in Procs |-> 0]
  /\ buffer = [p \in Procs |-> <<>>]
  /\ existed = [p \in Procs |-> "unset"]
  /\ plist_data = [p \in Procs |-> NoDoc]
  /\ exc = [p \in Procs |-> NoExc]
  /\ out = [p \in Procs |-> <<>>]
  /\ success = [p \in Procs |-> "unset"]
  /\ exit_code = [p \in Procs |-> -1]

(* ------------------------------ actions -------------------------------- *)
\* lines 41-43: the entry point calls update_info_plist (at most n runs)
Invoke(p, n) ==
  /\ pc[p] \in {"idle", "done"}
  /\ runs[p] < n
  /\ pc' = [pc EXCEPT ![p] = "check"]
  /\ runs' = [runs EXCEPT ![p] = @ + 1]
  /\ before' = [before EXCEPT ![p] = FileNow]
  /\ writeOpens' = [writeOpens EXCEPT ![p] = 0]
  /\ offset' = [offset EXCEPT ![p] = 0]
  /\ buffer' = [buffer EXCEPT ![p] = <<>>]
  /\ existed' = [existed EXCEPT ![p] = "unset"]
  /\ plist_data' = [plist_data EXCEPT ![p] = NoDoc]
  /\ exc' = [exc EXCEPT ![p] = NoExc]
  /\ out' = [out EXCEPT ![p] = <<>>]
  /\ success' = [success EXCEPT ![p] = "unset"]
  /\ exit_code' = [exit_code EXCEPT ![p] = -1]
  /\ UNCHANGED <<fexists, fbytes, file0, storage, readOpen, writeOpen>>

\* CheckExists without the early return: a missing file is not reported at
\* line 15 and the invocation goes on to open it
CheckExists_NoEarlyReturn(p) ==
  /\ pc[p] = "check"
  /\ existed' = [existed EXCEPT ![p] = IF fexists THEN "True" ELSE "False"]
  /\ pc' = [pc EXCEPT ![p] = "open_read"]
  /\ UNCHANGED <<fexists, fbytes, file0, storage, runs, before, readOpen, writeOpen,
                 writeOpens, offset, buffer, plist_data, exc, out, success, exit_code>>

\* lines 14-16: if not os.path.exists(plist_path): print; return False
CheckExists(p) ==
  /\ pc[p] = "check"
  /\ existed' = [existed EXCEPT ![p] = IF fexists THEN "True" ELSE "False"]
  /\ IF fexists
     THEN /\ pc' = [pc EXCEPT ![p] = "open_read"]
          /\ UNCHANGED <<out, success>>
     ELSE /\ out' = [out EXCEPT ![p] = Append(@, "not_found")]
          /\ success' = [success EXCEPT ![p] = "False"]
          /\ pc' = [pc EXCEPT ![p] = "exit"]
  /\ UNCHANGED <<fexists, fbytes, file0, storage, runs, before, readOpen, writeOpen,
                 writeOpens, offset, buffer, plist_data, exc, exit_code>>

\* line 20: with open(plist_path, 'rb') as f
OpenRead(p) ==
  /\ pc[p] = "open_read"
  /\ IF fexists
     THEN /\ readOpen' = [readOpen EXCEPT ![p] = TRUE]
          /\ pc' = [pc EXCEPT ![p] = "load"]
          /\ UNCHANGED exc
     ELSE /\ exc' = [exc EXCEPT ![p] = Raised("FileNotFoundError", 20)]
          /\ pc' = [pc EXCEPT ![p] = "except"]
          /\ UNCHANGED readOpen
  /\ UNCHANGED <<existed, fexists, fbytes, file0, storage, runs, before, writeOpen,
                 writeOpens, offset, buffer, plist_data, out, success, exit_code>>

\* Load that takes content it cannot parse for an empty dictionary
Load_Lenient(p) ==
  /\ pc[p] = "load"
  /\ plist_data' = [plist_data EXCEPT ![p] =
                      IF Valid(fbytes) THEN Parse(fbytes) ELSE DictDoc(<<>>)]
  /\ pc' = [pc EXCEPT ![p] = "close_read"]
  /\ UNCHANGED <<existed, fexists, fbytes, file0, storage, runs, before, readOpen,
                 writeOpen, writeOpens, offset, buffer, exc, out, success, exit_code>>

\* line 21: plist_data = plistlib.load(f)
Load(p) ==
  /\ pc[p] = "load"
  /\ IF Valid(fbytes)
     THEN /\ plist_data' = [plist_data EXCEPT ![p] = Parse(fbytes)]
          /\ UNCHANGED exc
     ELSE /\ exc' = [exc EXCEPT ![p] = Raised("InvalidFileException", 21)]
          /\ UNCHANGED plist_data
  /\ pc' = [pc EXCEPT ![p] = "close_read"]
  /\ UNCHANGED <<existed, fexists, fbytes, file0, storage, runs, before, readOpen, writeOpen,
                 writeOpens, offset, buffer, out, success, exit_code>>

\* CloseRead that leaves the handle open when the load succeeded
CloseRead_Leak(p) ==
  /\ pc[p] = "close_read"
  /\ readOpen' = [readOpen EXCEPT ![p] = (exc[p] = NoExc)]
  /\ pc' = [pc EXCEPT ![p] = IF exc[p] = NoExc THEN "test" ELSE "except"]
  /\ UNCHANGED <<existed, fexists, fbytes, file0, storage, runs, before, writeOpen,
                 writeOpens, offset, buffer, plist_data, exc, out, success, exit_code>>

\* end of the with block of line 20: the handle is closed on both paths
CloseRead(p) ==
  /\ pc[p] = "close_read"
  /\ readOpen' = [readOpen EXCEPT ![p] = FALSE]
  /\ pc' = [pc EXCEPT ![p] = IF exc[p] = NoExc THEN "test" ELSE "except"]
  /\ UNCHANGED <<existed, fexists, fbytes, file0, storage, runs, before, writeOpen,
                 writeOpens, offset, buffer, plist_data, exc, out, success, exit_code>>

\* lines 24-28: remove the key if it is there
TestKey(p) ==
  /\ pc[p] = "test"
  /\ CASE plist_data[p].root = "int" ->
            \* 'in' on an int raises TypeError
            /\ exc' = [exc EXCEPT ![p] = Raised("TypeError", 24)]
            /\ pc' = [pc EXCEPT ![p] = "except"]
            /\ UNCHANGED <<plist_data, out>>
       [] plist_data[p].root = "array" /\ Contains(plist_data[p], TargetKey) ->
            \* del list['...'] raises TypeError
            /\ exc' = [exc EXCEPT ![p] = Raised("TypeError", 25)]
            /\ pc' = [pc EXCEPT ![p] = "except"]
            /\ UNCHANGED <<plist_data, out>>
       [] plist_data[p].root = "dict" /\ Contains(plist_data[p], TargetKey) ->
            /\ plist_data' = [plist_data EXCEPT ![p] = RemoveKey(@, TargetKey)]
            /\ out' = [out EXCEPT ![p] = Append(@, "removed")]
            /\ pc' = [pc EXCEPT ![p] = "open_write"]
            /\ UNCHANGED exc
       [] OTHER ->
            /\ out' = [out EXCEPT ![p] = Append(@, "already_removed")]
            /\ pc' = [pc EXCEPT ![p] = "open_write"]
            /\ UNCHANGED <<plist_data, exc>>
  /\ UNCHANGED <<existed, fexists, fbytes, file0, storage, runs, before, readOpen, writeOpen,
                 writeOpens, offset, buffer, success, exit_code>>

\* OpenWrite that opens the path for update without truncating it
OpenWrite_NoTruncate(p) ==
  /\ pc[p] = "open_write"
  /\ IF storage = "readonly"
     THEN /\ exc' = [exc EXCEPT ![p] = Raised("PermissionError", 31)]
          /\ pc' = [pc EXCEPT ![p] = "except"]
          /\ UNCHANGED <<fexists, fbytes, writeOpen, writeOpens, offset>>
     ELSE /\ fexists' = TRUE
          /\ fbytes' = fbytes
          /\ writeOpen' = [writeOpen EXCEPT ![p] = TRUE]
          /\ writeOpens' = [writeOpens EXCEPT ![p] = @ + 1]
          /\ offset' = [offset EXCEPT ![p] = 0]
          /\ pc' = [pc EXCEPT ![p] = "dump"]
          /\ UNCHANGED exc
  /\ UNCHANGED <<existed, file0, storage, runs, before, readOpen, buffer, plist_data,
                 out, success, exit_code>>

\* line 31: with open(plist_path, 'wb') as f  (creates or truncates the file)
OpenWrite(p) ==
  /\ pc[p] = "open_write"
  /\ IF storage = "readonly"
     THEN /\ exc' = [exc EXCEPT ![p] = Raised("PermissionError", 31)]
          /\ pc' = [pc EXCEPT ![p] = "except"]
          /\ UNCHANGED <<fexists, fbytes, writeOpen, writeOpens, offset>>
     ELSE /\ fexists' = TRUE
          /\ fbytes' = <<>>
          /\ writeOpen' = [writeOpen EXCEPT ![p] = TRUE]
          /\ writeOpens' = [writeOpens EXCEPT ![p] = @ + 1]
          /\ offset' = [offset EXCEPT ![p] = 0]
          /\ pc' = [pc EXCEPT ![p] = "dump"]
          /\ UNCHANGED exc
  /\ UNCHANGED <<existed, file0, storage, runs, before, readOpen, buffer, plist_data, out,
                 success, exit_code>>

\* line 32: plistlib.dump(plist_data, f) fills the buffer of the file object
Dump(p) ==
  /\ pc[p] = "dump"
  /\ LET d == DumpXml(plist_data[p])
     IN /\ buffer' = [buffer EXCEPT ![p] = d.bytes]
        /\ exc' = [exc EXCEPT ![p] =
                     IF d.exc = "none" THEN NoExc ELSE Raised(d.exc, 32)]
  /\ pc' = [pc EXCEPT ![p] = "flush"]
  /\ UNCHANGED <<existed, fexists, fbytes, file0, storage, runs, before, readOpen, writeOpen,
                 writeOpens, offset, plist_data, out, success, exit_code>>

\* the buffer is written out, one write system call per chunk; a full disk
\* makes the write fail with OSError and the buffered bytes are lost
Flush(p) ==
  /\ pc[p] = "flush"
  /\ buffer[p] # <<>>
  /\ IF storage = "full"
     THEN /\ exc' = [exc EXCEPT ![p] = Raised("OSError", 32)]
          /\ buffer' = [buffer EXCEPT ![p] = <<>>]
          /\ UNCHANGED <<fbytes, offset>>
     ELSE LET n == IF Len(buffer[p]) < ChunkLen THEN Len(buffer[p]) ELSE ChunkLen
          IN /\ fbytes' = WriteAt(fbytes, offset[p], SubSeq(buffer[p], 1, n))
             /\ offset' = [offset EXCEPT ![p] = @ + n]
             /\ buffer' = [buffer EXCEPT ![p] = SubSeq(@, n + 1, Len(@))]
             /\ UNCHANGED exc
  /\ UNCHANGED <<existed, fexists, file0, storage, pc, runs, before, readOpen, writeOpen,
                 writeOpens, plist_data, out, success, exit_code>>

\* end of the with block of line 31: the handle is closed on both paths
CloseWrite(p) ==
  /\ pc[p] = "flush"
  /\ buffer[p] = <<>>
  /\ writeOpen' = [writeOpen EXCEPT ![p] = FALSE]
  /\ pc' = [pc EXCEPT ![p] = IF exc[p] = NoExc THEN "return" ELSE "except"]
  /\ UNCHANGED <<existed, fexists, fbytes, file0, storage, runs, before, readOpen,
                 writeOpens, offset, buffer, plist_data, exc, out, success, exit_code>>

\* lines 34-35: print; return True
ReturnTrue(p) ==
  /\ pc[p] = "return"
  /\ out' = [out EXCEPT ![p] = Append(@, "updated")]
  /\ success' = [success EXCEPT ![p] = "True"]
  /\ pc' = [pc EXCEPT ![p] = "exit"]
  /\ UNCHANGED <<existed, fexists, fbytes, file0, storage, runs, before, readOpen, writeOpen,
                 writeOpens, offset, buffer, plist_data, exc, exit_code>>

\* Except that reports a file found missing at the open as not found
Except_NotFound(p) ==
  /\ pc[p] = "except"
  /\ out' = [out EXCEPT ![p] =
               Append(@, IF exc[p].type = "FileNotFoundError" THEN "not_found" ELSE "error")]
  /\ success' = [success EXCEPT ![p] = "False"]
  /\ pc' = [pc EXCEPT ![p] = "exit"]
  /\ UNCHANGED <<existed, fexists, fbytes, file0, storage, runs, before, readOpen,
                 writeOpen, writeOpens, offset, buffer, plist_data, exc, exit_code>>

\* lines 37-39: except Exception as e: print; return False
Except(p) ==
  /\ pc[p] = "except"
  /\ out' = [out EXCEPT ![p] = Append(@, "error")]
  /\ success' = [success EXCEPT ![p] = "False"]
  /\ pc' = [pc EXCEPT ![p] = "exit"]
  /\ UNCHANGED <<existed, fexists, fbytes, file0, storage, runs, before, readOpen, writeOpen,
                 writeOpens, offset, buffer, plist_data, exc, exit_code>>

\* Exit that gives code 0 whatever update_info_plist returned
Exit_AlwaysZero(p) ==
  /\ pc[p] = "exit"
  /\ exit_code' = [exit_code EXCEPT ![p] = 0]
  /\ pc' = [pc EXCEPT ![p] = "done"]
  /\ UNCHANGED <<existed, fexists, fbytes, file0, storage, runs, before, readOpen,
                 writeOpen, writeOpens, offset, buffer, plist_data, exc, out, success>>

\* line 44: sys.exit(0 if success else 1)
Exit(p) ==
  /\ pc[p] = "exit"
  /\ exit_code' = [exit_code EXCEPT ![p] = IF success[p] = "True" THEN 0 ELSE 1]
  /\ pc' = [pc EXCEPT ![p] = "done"]
  /\ UNCHANGED <<existed, fexists, fbytes, file0, storage, runs, before, readOpen, writeOpen,
                 writeOpens, offset, buffer, plist_data, exc, out, success>>

\* another program removes the file while no handle of the script is open
Unlink ==
  /\ fexists
  /\ \A p \in Procs : ~readOpen[p] /\ ~writeOpen[p]
  /\ \E p \in Procs : pc[p] \notin {"idle", "done"}
  /\ fexists' = FALSE
  /\ fbytes' = <<>>
  /\ UNCHANGED <<existed, file0, storage, pc, runs, before, readOpen, writeOpen, writeOpens,
                 offset, buffer, plist_data, exc, out, success, exit_code>>

\* the statements of one invocation after the call
Step(p) ==
  \/ CheckExists(p)
  \/ OpenRead(p)
  \/ Load(p)
  \/ CloseRead(p)
  \/ TestKey(p)
  \/ OpenWrite(p)
  \/ Dump(p)
  \/ Flush(p)
  \/ CloseWrite(p)
  \/ ReturnTrue(p)
  \/ Except(p)
  \/ Exit(p)

(* --------------------------- specifications ---------------------------- *)
\* one process runs the script, up to MaxRuns times in sequence
Next == Invoke(1, MaxRuns) \/ Step(1)

Spec == Init /\ [][Next]_vars

\* two processes run the script once each, concurrently, on the same path
ConcNext == \E p \in Procs : Invoke(p, 1) \/ Step(p)

ConcSpec == Init /\ [][ConcNext]_vars

\* as ConcSpec, and another program may remove the file
EnvNext == ConcNext \/ Unlink

EnvSpec == Init /\ [][EnvNext]_vars

\* one process, with the scheduling a running interpreter guarantees: a
\* started invocation keeps executing its next statement
FairSpec == Spec /\ WF_vars(Step(1))

(* --------------------- outcomes, as the spec names them ---------------- *)
Done(p) == pc[p] = "done"

Printed(p, line) == \E i \in 1..Len(out[p]) : out[p][i] = line

\* the outcome of a finished invocation, read off what it printed, what it
\* returned and the exception it caught
Outcome(p) ==
  CASE success[p] = "True" /\ Printed(p, "removed") -> "Removed"
    [] success[p] = "True" /\ Printed(p, "already_removed") -> "AlreadyAbsent"
    [] success[p] = "False" /\ Printed(p, "not_found") -> "NotFound"
    [] success[p] = "False" /\ exc[p].type = "InvalidFileException" -> "ParseError"
    [] success[p] = "False" /\ exc[p].line \in {31, 32} -> "WriteError"
    [] OTHER -> "OtherError"

\* the file holds a property list whose root is a dictionary
HoldsDict(f) == f.exists /\ Valid(f.bytes) /\ Parse(f.bytes).root = "dict"

\* same value, whatever the order of the entries of nested dictionaries
RECURSIVE SameValue(_, _)
SameValue(v, w) ==
  IF v.t = "dict" /\ w.t = "dict"
  THEN /\ {v.items[i].k : i \in 1..Len(v.items)} = {w.items[i].k : i \in 1..Len(w.items)}
       /\ \A i \in 1..Len(v.items), j \in 1..Len(w.items) :
            v.items[i].k = w.items[j].k => SameValue(v.items[i].v, w.items[j].v)
  ELSE v = w

\* doc holds exactly the keys ks of ref, each with the value it has in ref
SameEntries(doc, ref, ks) ==
  /\ doc.root = "dict"
  /\ KeysOf(doc) = ks
  /\ \A k \in ks : SameValue(ValueAt(doc, k), ValueAt(ref, k))

\* every value of the document can be written as XML
AllWritable(doc) == \A i \in 1..Len(doc.items) : XmlWritable(MemberValue(doc, doc.items[i]))

(* ------------------------------- claims -------------------------------- *)
\* C1 (as claimed): an invocation that found a valid dictionary D holding the
\* target key, on working storage, ends Removed and leaves a document with the
\* keys of D minus the target key, every other key with its value in D.
C1_Claim ==
  (Done(1) /\ storage = "ok" /\ HoldsDict(before[1])
     /\ TargetKey \in KeysOf(Parse(before[1].bytes)))
  => /\ Outcome(1) = "Removed"
     /\ HoldsDict(FileNow)
     /\ SameEntries(Parse(fbytes), Parse(before[1].bytes),
                    KeysOf(Parse(before[1].bytes)) \ {TargetKey})

\* C2 (as claimed): an invocation that found a valid dictionary D without the
\* target key, on working storage, ends AlreadyAbsent and leaves a document
\* with the keys and values of D.
C2_Claim ==
  (Done(1) /\ storage = "ok" /\ HoldsDict(before[1])
     /\ TargetKey \notin KeysOf(Parse(before[1].bytes)))
  => /\ Outcome(1) = "AlreadyAbsent"
     /\ HoldsDict(FileNow)
     /\ SameEntries(Parse(fbytes), Parse(before[1].bytes),
                    KeysOf(Parse(before[1].bytes)))

\* C3 (as claimed): starting from a valid dictionary on working storage, every
\* run after the first ends AlreadyAbsent and leaves the file as it found it.
C3_Claim ==
  (Done(1) /\ runs[1] >= 2 /\ storage = "ok" /\ HoldsDict(file0))
  => /\ Outcome(1) = "AlreadyAbsent"
     /\ FileNow = before[1]

\* C4 (as claimed): an invocation that ended in failure left the file exactly
\* as it was when the invocation started.
C4_Claim ==
  (Done(1) /\ success[1] = "False") => FileNow = before[1]

\* C5: an invocation that starts with no file at the path ends NotFound, has
\* attempted no open and no parse, has never opened the path for writing, and
\* leaves no file at the path.
C5_MissingFile ==
  (Done(1) /\ ~before[1].exists)
  => /\ Outcome(1) = "NotFound"
     /\ out[1] = <<"not_found">>
     /\ exc[1] = NoExc
     /\ plist_data[1] = NoDoc
     /\ writeOpens[1] = 0
     /\ ~fexists

C5_Witness == Done(1) /\ ~before[1].exists /\ existed[1] = "False"

\* C6: an invocation that starts with an existing file whose content is not a
\* property list ends ParseError, never opens the path for writing, and leaves
\* the bytes of the file unchanged.
C6_Malformed ==
  (Done(1) /\ before[1].exists /\ ~Valid(before[1].bytes))
  => /\ Outcome(1) = "ParseError"
     /\ exc[1] = Raised("InvalidFileException", 21)
     /\ writeOpens[1] = 0
     /\ FileNow = before[1]

C6_Witness ==
  Done(1) /\ before[1].exists /\ ~Valid(before[1].bytes) /\ before[1].bytes # <<>>

\* the write of a finished invocation completed: the path was opened for
\* writing, nothing was raised and the file holds all that dump produced
WriteCompleted(p) ==
  /\ writeOpens[p] = 1
  /\ exc[p] = NoExc
  /\ fbytes = DumpXml(plist_data[p]).bytes

C7_Reported ==
  Done(1) =>
    /\ success[1] \in {"True", "False"}
    /\ success[1] = "True" <=> (plist_data[1] # NoDoc /\ WriteCompleted(1))
    /\ success[1] = "True" <=> Outcome(1) \in {"Removed", "AlreadyAbsent"}
    /\ exit_code[1] \in {0, 1}
    /\ exit_code[1] = 0 <=> success[1] = "True"
    /\ Len(out[1]) >= 1

\* C7: every started invocation ends with a reported outcome: it returns True
\* exactly when the load succeeded and the write completed (Removed or
\* AlreadyAbsent), False otherwise, and the process exits with code 0 exactly
\* when True was returned.
C7_Outcome == [](C7_Reported) /\ (pc[1] = "check" ~> Done(1))

C7_Witness == Done(1) /\ Outcome(1) = "WriteError" /\ exit_code[1] = 1

\* C8 (as claimed): two finished invocations that failed for different
\* reasons among missing file, invalid content and write failure gave their
\* callers different results.
C8_Claim ==
  \A p, q \in Procs :
    (Done(p) /\ Done(q)
       /\ Outcome(p) \in {"NotFound", "ParseError", "WriteError"}
       /\ Outcome(q) \in {"NotFound", "ParseError", "WriteError"}
       /\ Outcome(p) # Outcome(q))
    => success[p] # success[q]

\* C8 (amended): every failure returns the same value False; the failures
\* differ only in what is printed.  A file missing at the existence check
\* prints the not-found line and nothing is raised; invalid content and write
\* failures are caught by the one handler of line 37, with the exception of
\* line 21 and of lines 31-32; the not-found line is printed exactly when the
\* file was missing at the check, and a file that disappears between the check
\* and the open is reported by the handler as FileNotFoundError of line 20.
C8_Amended ==
  \A p \in Procs :
    Done(p) =>
      /\ Outcome(p) \in {"NotFound", "ParseError", "WriteError", "OtherError"}
           => success[p] = "False"
      /\ Printed(p, "not_found") <=> existed[p] = "False"
      /\ Outcome(p) = "NotFound" => (out[p] = <<"not_found">> /\ exc[p] = NoExc)
      /\ Outcome(p) = "ParseError"
           => (existed[p] = "True" /\ exc[p].line = 21 /\ out[p] = <<"error">>)
      /\ Outcome(p) = "WriteError"
           => (plist_data[p] # NoDoc /\ out[p][Len(out[p])] = "error")
      /\ exc[p].type = "FileNotFoundError"
           => (existed[p] = "True" /\ exc[p].line = 20 /\ out[p] = <<"error">>)

C8_Witness ==
  \E p, q \in Procs :
    /\ Done(p) /\ Done(q)
    /\ exc[p].type = "FileNotFoundError"
    /\ Outcome(q) = "WriteError"
    /\ success[p] = success[q]

\* C9: in every invocation the read handle is closed, after a successful parse
\* and after a failed one, before the path is opened for writing; the two
\* handles are never open together and the path is opened for writing at most
\* once.
C9_ReadThenWrite ==
  \A p \in Procs :
    /\ ~(readOpen[p] /\ writeOpen[p])
    /\ writeOpens[p] <= 1
    /\ pc[p] \in {"test", "open_write", "dump", "flush", "return"} => ~readOpen[p]
    /\ pc[p] \in {"except", "exit", "done"} => (~readOpen[p] /\ ~writeOpen[p])
    /\ writeOpen[p] => (writeOpens[p] = 1 /\ plist_data[p] # NoDoc)

C9_Witness ==
  \E p \in Procs : writeOpen[p] /\ ~readOpen[p] /\ buffer[p] # <<>>

\* the two invocations have finished
BothDone == \A p \in Procs : Done(p)

\* C10 (as claimed): two concurrent invocations on a valid dictionary that a
\* lone invocation rewrites successfully both succeed, and the final content is
\* the complete document one of them serialized, without the target key.
C10_Claim ==
  (BothDone /\ storage = "ok" /\ HoldsDict(file0) /\ AllWritable(Parse(file0.bytes)))
  => /\ \A p \in Procs : success[p] = "True"
     /\ HoldsDict(FileNow)
     /\ TargetKey \notin KeysOf(Parse(fbytes))
     /\ \E p \in Procs : fbytes = DumpXml(plist_data[p]).bytes

\* C10 (amended): of two concurrent invocations on a valid dictionary that a
\* lone invocation rewrites successfully, at least one succeeds; the other may
\* fail, and then it fails with the parse error of line 21 and has never opened
\* the path for writing.  Whenever an invocation succeeded, the final content
\* is the complete document a successful invocation serialized, a valid
\* property list without the target key: never empty, partial or mixed.
C10_Amended ==
  /\ (BothDone /\ storage = "ok" /\ HoldsDict(file0) /\ AllWritable(Parse(file0.bytes)))
     => /\ \E p \in Procs : success[p] = "True"
        /\ \A p \in Procs :
             success[p] = "False" => (Outcome(p) = "ParseError" /\ writeOpens[p] = 0)
  /\ (BothDone /\ \E p \in Procs : success[p] = "True")
     => /\ fexists /\ Valid(fbytes)
        /\ ~Contains(Parse(fbytes), TargetKey)
        /\ \E p \in Procs : success[p] = "True" /\ fbytes = DumpXml(plist_data[p]).bytes

C10_Witness ==
  /\ BothDone /\ HoldsDict(file0) /\ TargetKey \in KeysOf(Parse(file0.bytes))
  /\ \E p, q \in Procs : Outcome(p) = "Removed" /\ Outcome(q) = "ParseError"

====
